---- MODULE Spec2Model ----
(***************************************************************************)
(* A model of the two scripts of speedrota:                                *)
(*   convert_docx_to_pdf.py  the DOCX -> PDF converter dispatcher (main    *)
(*                           and its three backend functions);             *)
(*   remove_bg.py            the near-white background remover.            *)
(* The two scripts share nothing; each has its own specification           *)
(* (Spec, and FairSpec with fairness, for the dispatcher; PixelSpec for    *)
(* the background remover).                                                *)
(*                                                                         *)
(* The external converters are the environment.  Each has a disposition   *)
(* on the host, fixed for the run (Init), and obeys the interface the      *)
(* dispatcher relies on: it writes its target file exactly when it         *)
(* reports success (exit code 0 / no exception).                           *)
(***************************************************************************)
EXTENDS Integers, Sequences, FiniteSets, TLC

VARIABLES
    platform,     \* sys.platform
    tool,         \* backend -> disposition of the external tool on the host
    fs,           \* the paths that exist in the file system
    fs0,          \* the file system when main() started (history)
    pc,           \* where the process is
    calls,        \* the backends invoked so far, in order (history)
    results,      \* backend -> "none" | "True" | "False", the value it returned
    failure,      \* backend -> "none" | the way its tool failed (history)
    elapsed,      \* seconds the call in flight has been blocking
    duration,     \* {n}: the tool in flight completes after n seconds; {}: never
    deadline,     \* {n}: the timeout of the call in flight; {}: none
    stdout,       \* the lines printed
    escaped,      \* the exception that escaped to main(), or "none"
    exit_status,  \* {}: running; {n}: the process ended with status n
    img_pc,       \* remove_bg.py: where the script is
    source,       \* remove_bg.py: the pixels of logo.jpg as stored
    data,         \* remove_bg.py: data
    new_data,     \* remove_bg.py: new_data
    idx,          \* remove_bg.py: number of pixels of data the loop has taken
    saved         \* remove_bg.py: the pixels written to logo.png

conv_vars == <<platform, tool, fs, fs0, pc, calls, results, failure, elapsed,
               duration, deadline, stdout, escaped, exit_status>>
img_vars == <<img_pc, source, data, new_data, idx, saved>>
vars == <<conv_vars, img_vars>>

----------------------------------------------------------------------------
(* Bounds and program constants *)

\* timeout=120 of both subprocess.run calls
TIMEOUT == 120

\* the longest image the background remover is given
MaxPixels == 2

\* the threshold of the near-white test
Threshold == 230

\* timeout=None: no deadline; a deadline of n seconds is {n}
NoTimeout == {}

\* a call that never completes; one that completes after n seconds is {n}
Never == {}

\* the process has not ended; ended with status n is {n}
Running == {}

----------------------------------------------------------------------------
(* Paths (pathlib.Path): a directory, a stem and a suffix *)

ScriptDir == "script_dir"
Cwd == "cwd"

MkPath(d, s, x) == [dir |-> d, stem |-> s, suffix |-> x]

\* Path(__file__).parent / "SpeedRota_Pricing_Brasil_Revisado.docx"
input_file == MkPath(ScriptDir, "SpeedRota_Pricing_Brasil_Revisado", ".docx")

\* Path(__file__).parent / "SpeedRota_Pricing_Brasil_Revisado.pdf"
output_file == MkPath(ScriptDir, "SpeedRota_Pricing_Brasil_Revisado", ".pdf")

\* the working directory as output directory, instead of the input's
LibreOfficeOutdirCwd == Cwd

\* the second argument main() gives convert_with_libreoffice: input_file.parent
LibreOfficeOutdir == input_file.dir

\* libreoffice --convert-to pdf --outdir D F writes D/<stem of F>.pdf
LibreOfficeTarget(in, outdir) == MkPath(outdir, in.stem, ".pdf")

Backends == <<"docx2pdf", "libreoffice", "pandoc">>
BackendSet == {"docx2pdf", "libreoffice", "pandoc"}
Subprocesses == {"libreoffice", "pandoc"}

\* the file each backend writes, from the arguments main() passes it
TargetOf(b) ==
    CASE b = "docx2pdf" -> output_file
      [] b = "libreoffice" -> LibreOfficeTarget(input_file, LibreOfficeOutdir)
      [] b = "pandoc" -> output_file

----------------------------------------------------------------------------
(* Exceptions *)

\* the classes derived from Exception among those the calls raise
ExceptionSubclasses ==
    {"ImportError", "com_error", "FileNotFoundError", "PermissionError",
     "TimeoutExpired"}

\* a handler that names one class only
CatchesImportErrorOnly(exc) == exc = "ImportError"

\* except Exception as e
Catches(exc) == exc \in ExceptionSubclasses

----------------------------------------------------------------------------
(* The converters on the host *)

\* docx2pdf: importable and converting, not installed, convert() raising,
\* or convert() not returning (Word waiting on a dialog)
Docx2pdfDispositions == {"working", "missing", "broken", "hangs"}

\* libreoffice / pandoc: converting, not on PATH, not executable, exiting
\* non-zero, or still running after the timeout
SubprocessDispositions == {"working", "missing", "broken", "exit_nonzero", "slow"}

Line(msg, who, diag) == [msg |-> msg, who |-> who, diag |-> diag]

EntryPc(b) ==
    CASE b = "docx2pdf" -> "docx2pdf_import"
      [] b = "libreoffice" -> "libreoffice_start"
      [] b = "pandoc" -> "pandoc_start"

WaitPc(b) ==
    CASE b = "docx2pdf" -> "docx2pdf_convert"
      [] b = "libreoffice" -> "libreoffice_wait"
      [] b = "pandoc" -> "pandoc_wait"

AfterPc(b) ==
    CASE b = "docx2pdf" -> "main_after_docx2pdf"
      [] b = "libreoffice" -> "main_after_libreoffice"
      [] b = "pandoc" -> "main_after_pandoc"

Blocking == pc \in {"docx2pdf_convert", "libreoffice_wait", "pandoc_wait"}

----------------------------------------------------------------------------
(* Initial state of a run of convert_docx_to_pdf.py *)

ImgIdle ==
    /\ img_pc = "idle"
    /\ source = <<>>
    /\ data = <<>>
    /\ new_data = <<>>
    /\ idx = 0
    /\ saved = <<>>

Init ==
    /\ platform \in {"win32", "linux", "darwin"}
    /\ tool \in [BackendSet -> Docx2pdfDispositions \cup SubprocessDispositions]
    /\ tool["docx2pdf"] \in Docx2pdfDispositions
    /\ \A b \in Subprocesses : tool[b] \in SubprocessDispositions
    /\ fs \in SUBSET {input_file, output_file}
    /\ fs0 = fs
    /\ pc = "main_check"
    /\ calls = <<>>
    /\ results = [b \in BackendSet |-> "none"]
    /\ failure = [b \in BackendSet |-> "none"]
    /\ elapsed = 0
    /\ duration = Never
    /\ deadline = NoTimeout
    /\ stdout = <<>>
    /\ escaped = "none"
    /\ exit_status = Running
    /\ ImgIdle

----------------------------------------------------------------------------
(* The backend functions *)

\* a backend function returns val to main(), having printed lines
Returns(b, val, why, lines) ==
    /\ results' = [results EXCEPT ![b] = val]
    /\ failure' = [failure EXCEPT ![b] = why]
    /\ stdout' = stdout \o lines
    /\ pc' = AfterPc(b)
    /\ UNCHANGED <<escaped, exit_status>>

\* a handler that returns False without printing
RaiseSilent(b, exc) == Returns(b, "False", exc, <<>>)

\* exc is raised inside the try block of backend b
Raise(b, exc) ==
    IF Catches(exc)
    THEN Returns(b, "False", exc, <<Line("falhou", b, exc)>>)
    ELSE /\ escaped' = exc
         /\ pc' = "crashed"
         /\ exit_status' = {1}
         /\ failure' = [failure EXCEPT ![b] = exc]
         /\ UNCHANGED <<results, stdout>>

\* result.returncode == 0, with nothing printed
ReturnCodeResult(b, returncode) ==
    Returns(b, IF returncode = 0 THEN "True" ELSE "False",
            IF returncode = 0 THEN "none" ELSE "exit_nonzero", <<>>)

\* main() calls backend b
Invoke(b) ==
    /\ calls' = Append(calls, b)
    /\ pc' = EntryPc(b)

\* convert(...) is called without a timeout
Docx2pdfTimeoutArg == NoTimeout

\* subprocess.run called without timeout=
SubprocessTimeoutArgMissing == NoTimeout

\* subprocess.run(..., timeout=120)
SubprocessTimeoutArg == {TIMEOUT}

\* from docx2pdf import convert, then convert(...) starts
Docx2pdfImport ==
    /\ pc = "docx2pdf_import"
    /\ UNCHANGED img_vars
    /\ IF tool["docx2pdf"] = "missing"
       THEN /\ Raise("docx2pdf", "ImportError")
            /\ UNCHANGED <<elapsed, duration, deadline>>
       ELSE /\ pc' = WaitPc("docx2pdf")
            /\ elapsed' = 0
            /\ deadline' = Docx2pdfTimeoutArg
            /\ duration' \in IF tool["docx2pdf"] = "hangs"
                             THEN {Never} ELSE {{1}, {2}}
            /\ UNCHANGED <<results, failure, stdout, escaped, exit_status>>
    /\ UNCHANGED <<platform, tool, fs, fs0, calls>>

\* convert(str(input_file), str(output_file)) completes
Docx2pdfConvert ==
    /\ pc = "docx2pdf_convert"
    /\ UNCHANGED img_vars
    /\ elapsed \in duration
    /\ IF tool["docx2pdf"] = "working"
       THEN /\ fs' = fs \cup {TargetOf("docx2pdf")}
            /\ Returns("docx2pdf", "True", "none", <<>>)
       ELSE /\ fs' = fs
            /\ Raise("docx2pdf", "com_error")
    /\ UNCHANGED <<platform, tool, fs0, calls, elapsed, duration, deadline>>

\* subprocess.run([...], timeout=120) starts the child process
SubprocessStart(b) ==
    /\ pc = EntryPc(b)
    /\ UNCHANGED img_vars
    /\ CASE tool[b] = "missing" ->
              /\ Raise(b, "FileNotFoundError")
              /\ UNCHANGED <<elapsed, duration, deadline>>
         [] tool[b] = "broken" ->
              /\ Raise(b, "PermissionError")
              /\ UNCHANGED <<elapsed, duration, deadline>>
         [] OTHER ->
              /\ pc' = WaitPc(b)
              /\ elapsed' = 0
              /\ deadline' = SubprocessTimeoutArg
              /\ duration' \in IF tool[b] = "slow"
                               THEN {Never} ELSE {{1}, {TIMEOUT - 1}}
              /\ UNCHANGED <<results, failure, stdout, escaped, exit_status>>
    /\ UNCHANGED <<platform, tool, fs, fs0, calls>>

\* the child process exits before the timeout; return result.returncode == 0
SubprocessExit(b) ==
    /\ pc = WaitPc(b)
    /\ UNCHANGED img_vars
    /\ elapsed \in duration
    /\ IF tool[b] = "working"
       THEN /\ fs' = fs \cup {TargetOf(b)}
            /\ ReturnCodeResult(b, 0)
       ELSE /\ fs' = fs
            /\ ReturnCodeResult(b, 1)
    /\ UNCHANGED <<platform, tool, fs0, calls, elapsed, duration, deadline>>

\* the timeout of subprocess.run expires: TimeoutExpired
SubprocessTimeout(b) ==
    /\ pc = WaitPc(b)
    /\ UNCHANGED img_vars
    /\ elapsed \in deadline
    /\ Raise(b, "TimeoutExpired")
    /\ UNCHANGED <<platform, tool, fs, fs0, calls, elapsed, duration, deadline>>

\* a second passes towards the completion or the timeout of the call in
\* flight; a call with neither blocks the process for good
Tick ==
    /\ Blocking
    /\ UNCHANGED img_vars
    /\ elapsed \notin duration
    /\ IF deadline = NoTimeout
       THEN duration # Never
       ELSE \A d \in deadline : elapsed < d
    /\ elapsed' = elapsed + 1
    /\ UNCHANGED <<platform, tool, fs, fs0, pc, calls, results, failure,
                   duration, deadline, stdout, escaped, exit_status>>

----------------------------------------------------------------------------
(* main() *)

\* main() returns
MainReturn(lines) ==
    /\ stdout' = stdout \o lines
    /\ pc' = "returned"
    /\ exit_status' = {0}
    /\ UNCHANGED calls

\* the existence check without its sys.exit(1)
MainCheckInputNoExit ==
    /\ pc = "main_check"
    /\ UNCHANGED img_vars
    /\ IF input_file \notin fs
       THEN stdout' = Append(stdout, Line("not_found", "main", "input_file"))
       ELSE stdout' = Append(stdout, Line("converting", "main", "input_file"))
    /\ pc' = "main_platform"
    /\ UNCHANGED <<platform, tool, fs, fs0, calls, results, failure, elapsed,
                   duration, deadline, escaped, exit_status>>

\* if not input_file.exists(): print; sys.exit(1) -- else print "Convertendo"
MainCheckInput ==
    /\ pc = "main_check"
    /\ UNCHANGED img_vars
    /\ IF input_file \notin fs
       THEN /\ stdout' = Append(stdout, Line("not_found", "main", "input_file"))
            /\ exit_status' = {1}
            /\ pc' = "exited"
       ELSE /\ stdout' = Append(stdout, Line("converting", "main", "input_file"))
            /\ exit_status' = exit_status
            /\ pc' = "main_platform"
    /\ UNCHANGED <<platform, tool, fs, fs0, calls, results, failure, elapsed,
                   duration, deadline, escaped>>

\* a platform test that lets every platform through
PlatformIsWindowsAlways == TRUE

\* sys.platform == 'win32'
PlatformIsWindows == platform = "win32"

\* if sys.platform == 'win32': call docx2pdf -- else go on to LibreOffice
MainPlatform ==
    /\ pc = "main_platform"
    /\ UNCHANGED img_vars
    /\ IF PlatformIsWindows THEN Invoke("docx2pdf") ELSE Invoke("libreoffice")
    /\ UNCHANGED <<platform, tool, fs, fs0, results, failure, elapsed,
                   duration, deadline, stdout, escaped, exit_status>>

\* main() after backend b returned: print and return, or go on to nxt
MainAfter(b, nxt) ==
    /\ pc = AfterPc(b)
    /\ UNCHANGED img_vars
    /\ IF results[b] = "True"
       THEN MainReturn(<<Line("success", b, "output_file")>>)
       ELSE /\ Invoke(nxt)
            /\ UNCHANGED <<stdout, exit_status>>
    /\ UNCHANGED <<platform, tool, fs, fs0, results, failure, elapsed,
                   duration, deadline, escaped>>

\* docx2pdf called again after it returned false
MainAfterDocx2pdfRetry == MainAfter("docx2pdf", "docx2pdf")

\* if convert_with_docx2pdf(...): print; return -- else LibreOffice
MainAfterDocx2pdf == MainAfter("docx2pdf", "libreoffice")

\* if convert_with_libreoffice(...): print; return -- else Pandoc
MainAfterLibreOffice == MainAfter("libreoffice", "pandoc")

\* the last branch ending the process with sys.exit(1) when Pandoc failed
MainAfterPandocExit ==
    /\ pc = AfterPc("pandoc")
    /\ UNCHANGED img_vars
    /\ IF results["pandoc"] = "True"
       THEN MainReturn(<<Line("success", "pandoc", "output_file")>>)
       ELSE /\ stdout' = Append(stdout, Line("no_converter", "main", "none"))
            /\ pc' = "exited"
            /\ exit_status' = {1}
            /\ UNCHANGED calls
    /\ UNCHANGED <<platform, tool, fs, fs0, results, failure, elapsed,
                   duration, deadline, escaped>>

\* if convert_with_pandoc(...): print; return -- else the instructions
MainAfterPandoc ==
    /\ pc = AfterPc("pandoc")
    /\ UNCHANGED img_vars
    /\ IF results["pandoc"] = "True"
       THEN MainReturn(<<Line("success", "pandoc", "output_file")>>)
       ELSE MainReturn(<<Line("no_converter", "main", "none"),
                         Line("instructions", "main", "none")>>)
    /\ UNCHANGED <<platform, tool, fs, fs0, results, failure, elapsed,
                   duration, deadline, escaped>>

Next ==
    \/ MainCheckInput
    \/ MainPlatform
    \/ Docx2pdfImport
    \/ Docx2pdfConvert
    \/ MainAfterDocx2pdf
    \/ \E b \in Subprocesses : SubprocessStart(b)
    \/ \E b \in Subprocesses : SubprocessExit(b)
    \/ \E b \in Subprocesses : SubprocessTimeout(b)
    \/ Tick
    \/ MainAfterLibreOffice
    \/ MainAfterPandoc

Spec == Init /\ [][Next]_vars

\* the interpreter keeps running the process, and time passes
FairSpec == Spec /\ WF_vars(Next)

----------------------------------------------------------------------------
(* remove_bg.py *)

\* channel values around the threshold, and one far below it
Chan == {10, Threshold, Threshold + 1}

\* alpha values of a source that has an alpha channel
SourceAlphas == {0, 128}

\* a stored image: its mode and its pixels (3 channels in RGB, 4 in RGBA)
Images ==
    UNION {
        [mode : {"RGB"}, pixels : [1..n -> Chan \X Chan \X Chan]]
        \cup
        [mode : {"RGBA"}, pixels : [1..n -> Chan \X Chan \X Chan \X SourceAlphas]] :
        n \in 1..MaxPixels }

\* Image.convert('RGBA'): an image without alpha becomes opaque
ConvertRGBA(im) ==
    IF im.mode = "RGBA"
    THEN im.pixels
    ELSE [i \in 1..Len(im.pixels) |->
             <<im.pixels[i][1], im.pixels[i][2], im.pixels[i][3], 255>>]

\* a test that takes the threshold itself for background
NearWhiteInclusive(p) ==
    p[1] >= Threshold /\ p[2] >= Threshold /\ p[3] >= Threshold

\* p[0] > 230 and p[1] > 230 and p[2] > 230
NearWhite(p) == p[1] > Threshold /\ p[2] > Threshold /\ p[3] > Threshold

\* the pixel written for background: transparent white
Transparent == <<255, 255, 255, 0>>

\* the loop body with the else lost: the pixel is appended in both cases
LoopBodyNoElse(acc, p) ==
    Append(IF NearWhite(p) THEN Append(acc, Transparent) ELSE acc, p)

\* if ...: new_data.append((255, 255, 255, 0)) else: new_data.append(p)
LoopBody(acc, p) ==
    IF NearWhite(p) THEN Append(acc, Transparent) ELSE Append(acc, p)

ConvIdle ==
    /\ platform = "linux"
    /\ tool = [b \in BackendSet |-> "missing"]
    /\ fs = {}
    /\ fs0 = {}
    /\ pc = "idle"
    /\ calls = <<>>
    /\ results = [b \in BackendSet |-> "none"]
    /\ failure = [b \in BackendSet |-> "none"]
    /\ elapsed = 0
    /\ duration = Never
    /\ deadline = NoTimeout
    /\ stdout = <<>>
    /\ escaped = "none"
    /\ exit_status = Running

PixelInit ==
    /\ ConvIdle
    /\ img_pc = "open"
    /\ source \in Images
    /\ data = <<>>
    /\ new_data = <<>>
    /\ idx = 0
    /\ saved = <<>>

\* img = Image.open(...).convert('RGBA'); data = list(img.getdata()); new_data = []
ImgOpen ==
    /\ img_pc = "open"
    /\ data' = ConvertRGBA(source)
    /\ new_data' = <<>>
    /\ idx' = 0
    /\ img_pc' = "loop"
    /\ UNCHANGED <<source, saved, conv_vars>>

\* one iteration of: for p in data
LoopStep ==
    /\ img_pc = "loop"
    /\ idx < Len(data)
    /\ new_data' = LoopBody(new_data, data[idx + 1])
    /\ idx' = idx + 1
    /\ UNCHANGED <<img_pc, source, data, saved, conv_vars>>

\* img.putdata(new_data); img.save(..., 'PNG')
ImgSave ==
    /\ img_pc = "loop"
    /\ idx = Len(data)
    /\ saved' = new_data
    /\ img_pc' = "done"
    /\ UNCHANGED <<source, data, new_data, idx, conv_vars>>

PixelNext ==
    \/ ImgOpen
    \/ LoopStep
    \/ ImgSave

PixelSpec == PixelInit /\ [][PixelNext]_vars

\* the whole script applied to a pixel sequence
RECURSIVE RemoveBackgroundFrom(_, _)
RemoveBackgroundFrom(acc, rest) ==
    IF rest = <<>> THEN acc
    ELSE RemoveBackgroundFrom(LoopBody(acc, Head(rest)), Tail(rest))

RemoveBackground(pixels) == RemoveBackgroundFrom(<<>>, pixels)

----------------------------------------------------------------------------
(* Properties of the converter dispatcher *)

Range(seq) == {seq[i] : i \in 1..Len(seq)}

Rank(b) == CHOOSE i \in 1..Len(Backends) : Backends[i] = b

Printed(msg) == \E i \in 1..Len(stdout) : stdout[i].msg = msg

\* Path.with_suffix('.pdf') of the input path
ExpectedOutput == [input_file EXCEPT !.suffix = ".pdf"]

SuccessReported == pc = "returned" /\ Printed("success")

Terminated == pc \in {"returned", "exited", "crashed"}

\* C1: with an existing input file, backends are invoked only in the order
\* docx2pdf, LibreOffice, Pandoc; docx2pdf only on win32; a backend is invoked
\* only after every earlier invoked backend returned false, so none is invoked
\* once one returned true.
C1_BackendOrder ==
    input_file \in fs0 =>
        /\ \A i, j \in 1..Len(calls) : i < j => Rank(calls[i]) < Rank(calls[j])
        /\ "docx2pdf" \in Range(calls) => platform = "win32"
        /\ \A i \in 1..Len(calls) - 1 : results[calls[i]] = "False"
        /\ \A b \in BackendSet : results[b] = "True" => calls[Len(calls)] = b

C1_Witness ==
    /\ calls = Backends
    /\ results["pandoc"] = "True"
    /\ pc = "returned"

\* C2: when the input file is missing, main() prints "not found" and exits
\* with a non-zero status; no backend is invoked and no file is created.
C2_MissingInput ==
    input_file \notin fs0 =>
        /\ calls = <<>>
        /\ fs = fs0
        /\ pc \in {"main_check", "exited"}
        /\ pc = "exited" =>
              /\ stdout = <<Line("not_found", "main", "input_file")>>
              /\ exit_status # Running
              /\ 0 \notin exit_status

C2_Witness ==
    /\ pc = "exited"
    /\ input_file \notin fs0
    /\ output_file \notin fs

FailureWays ==
    {"ImportError", "com_error", "FileNotFoundError", "PermissionError",
     "TimeoutExpired", "exit_nonzero"}

\* C4: whatever way a backend's tool fails (missing, import error, exception
\* during the call, timeout, non-zero exit), the backend function returns
\* false, no exception reaches main(), and the run goes on.
C4_FailureReturnsFalse ==
    /\ escaped = "none"
    /\ pc # "crashed"
    /\ \A b \in BackendSet :
          failure[b] # "none" =>
              /\ failure[b] \in FailureWays
              /\ results[b] = "False"
              /\ pc = AfterPc(b) => exit_status = Running
              /\ exit_status \in {Running, {0}}

C4_Witness ==
    /\ failure["docx2pdf"] = "ImportError"
    /\ failure["libreoffice"] = "TimeoutExpired"
    /\ failure["pandoc"] = "exit_nonzero"
    /\ pc = "returned"

FailureLogged(b) ==
    \E i \in 1..Len(stdout) :
        /\ stdout[i].msg = "falhou"
        /\ stdout[i].who = b
        /\ stdout[i].diag = failure[b]

\* the backend main() tries after b, if any
Following(b) ==
    CASE b = "docx2pdf" -> {"libreoffice"}
      [] b = "libreoffice" -> {"pandoc"}
      [] b = "pandoc" -> {}

\* main() went on after backend b failed: to the next backend, or after the
\* last one to the instructions
Proceeded(b) ==
    pc # AfterPc(b) =>
        /\ Following(b) \subseteq Range(calls)
        /\ Following(b) = {} => (pc = "returned" /\ Printed("instructions"))

\* C5 as stated: every backend failure, by exception or by non-zero exit
\* code, is logged to standard output with the backend name and diagnostic
\* text, and the dispatcher proceeds.
C5_Original ==
    \A b \in BackendSet :
        failure[b] # "none" => (FailureLogged(b) /\ Proceeded(b))

\* C5 amended: a failure by exception is caught and logged with the backend
\* name and the exception text; a non-zero exit code is logged nowhere; in
\* both cases the backend returns false and the dispatcher proceeds to the
\* next backend, or to the instructions after Pandoc.
C5_ExceptionsLogged ==
    \A b \in BackendSet :
        /\ failure[b] \in ExceptionSubclasses => FailureLogged(b)
        /\ failure[b] = "exit_nonzero" =>
              ~ \E i \in 1..Len(stdout) : stdout[i].who = b
        /\ failure[b] # "none" => (results[b] = "False" /\ Proceeded(b))

C5_Witness ==
    /\ failure["docx2pdf"] = "com_error"
    /\ failure["libreoffice"] = "exit_nonzero"
    /\ failure["pandoc"] = "FileNotFoundError"
    /\ pc = "returned"

\* the backends main() can reach on this platform
Applicable ==
    IF platform = "win32" THEN BackendSet ELSE Subprocesses

WorkingConverter ==
    /\ input_file \in fs
    /\ \E b \in Applicable : tool[b] = "working"

\* the docx2pdf call is in flight and convert() will not return
BlockedInDocx2pdf == pc = "docx2pdf_convert" /\ duration = Never

\* C6 as stated: with an existing input and a working converter among the
\* applicable ones, main() eventually terminates with the PDF at the
\* expected path.
C6_Original ==
    WorkingConverter => <>(pc = "returned" /\ ExpectedOutput \in fs)

\* C6 amended: whenever main() reports success the PDF exists at the input
\* path with the .pdf suffix; and with an existing input and a working
\* converter among the applicable ones, main() eventually terminates with
\* success and that PDF, unless docx2pdf was invoked and its convert() call,
\* which has no timeout, never returns.
C6_SuccessHasPdf ==
    /\ [](SuccessReported => (ExpectedOutput \in fs /\ ExpectedOutput = output_file))
    /\ WorkingConverter =>
          <>((SuccessReported /\ ExpectedOutput \in fs) \/ BlockedInDocx2pdf)

C6_Witness ==
    /\ SuccessReported
    /\ results["libreoffice"] = "True"
    /\ output_file \notin fs0
    /\ output_file \in fs

\* C8: when the input exists and every invoked backend returned false,
\* main() prints the instructions and no success message, creates no file,
\* raises nothing and returns normally (exit status 0).
C8_AllFailed ==
    (input_file \in fs0 /\ results["pandoc"] = "False") =>
        /\ \A b \in Range(calls) : results[b] = "False"
        /\ pc \in {"main_after_pandoc", "returned"}
        /\ escaped = "none"
        /\ fs = fs0
        /\ ~ Printed("success")
        /\ pc = "returned" => (Printed("instructions") /\ exit_status = {0})
        /\ pc # "returned" => exit_status = Running

C8_Witness ==
    /\ pc = "returned"
    /\ Len(calls) = 2
    /\ \A b \in Range(calls) : results[b] = "False"
    /\ Printed("instructions")

\* C9: in one run each backend is invoked at most once.
C9_AtMostOnce ==
    \A i, j \in 1..Len(calls) : calls[i] = calls[j] => i = j

C9_Witness ==
    /\ Len(calls) = 3
    /\ \A b \in BackendSet : results[b] = "False"

NotFoundExit ==
    pc = "exited" /\ exit_status = {1} /\ Printed("not_found")

SuccessReturn ==
    /\ SuccessReported
    /\ \E b \in BackendSet : results[b] = "True"

AllFailedReturn ==
    /\ pc = "returned"
    /\ Printed("instructions")
    /\ \A b \in BackendSet : results[b] # "True"

ExactlyOneOutcome ==
    /\ NotFoundExit \/ SuccessReturn \/ AllFailedReturn
    /\ ~ (NotFoundExit /\ SuccessReturn)
    /\ ~ (NotFoundExit /\ AllFailedReturn)
    /\ ~ (SuccessReturn /\ AllFailedReturn)

\* C10 as stated: every external tool invocation is bounded by a configured
\* timeout, so every run eventually terminates in one of the three outcomes.
C10_Original ==
    /\ [](Blocking => deadline # NoTimeout)
    /\ <>ExactlyOneOutcome

\* C10 amended: the LibreOffice and Pandoc invocations are bounded by the
\* 120 second timeout, after which the backend has failed (it returns false
\* and main() goes on); the docx2pdf invocation has no timeout; every run
\* that does not block forever in docx2pdf terminates in exactly one of the
\* three outcomes.
C10_SubprocessesBounded ==
    /\ [](pc \in {"libreoffice_wait", "pandoc_wait"} =>
              (deadline = {TIMEOUT} /\ elapsed <= TIMEOUT))
    /\ [](pc = "docx2pdf_convert" => deadline = NoTimeout)
    /\ [](\A b \in Subprocesses :
              failure[b] = "TimeoutExpired" => (results[b] = "False" /\ Proceeded(b)))
    /\ [](Terminated => ExactlyOneOutcome)
    /\ <>(ExactlyOneOutcome \/ BlockedInDocx2pdf)

C10_Witness ==
    /\ pc = "main_after_libreoffice"
    /\ failure["libreoffice"] = "TimeoutExpired"
    /\ elapsed = TIMEOUT

----------------------------------------------------------------------------
(* Properties of the background remover *)

\* C3: every pixel whose three colour channels are all above 230 is written
\* as (255,255,255,0), every other pixel is written unchanged; a pixel with a
\* colour channel equal to 230 is unchanged.
C3_ThresholdTransform ==
    /\ Len(new_data) = idx
    /\ \A i \in 1..Len(new_data) :
          /\ (data[i][1] > 230 /\ data[i][2] > 230 /\ data[i][3] > 230)
                => new_data[i] = <<255, 255, 255, 0>>
          /\ (data[i][1] <= 230 \/ data[i][2] <= 230 \/ data[i][3] <= 230)
                => new_data[i] = data[i]
          /\ 230 \in {data[i][1], data[i][2], data[i][3]} => new_data[i] = data[i]
    /\ img_pc = "done" => (saved = new_data /\ Len(saved) = Len(data))

C3_Witness ==
    /\ img_pc = "done"
    /\ \E i, j \in 1..Len(data) :
          /\ data[i] = <<231, 231, 230, 128>>
          /\ saved[i] = data[i]
          /\ data[j] = <<231, 231, 231, 128>>
          /\ saved[j] = <<255, 255, 255, 0>>

\* C7: the transform applied to its own output gives that output; pixels
\* already (255,255,255,0) stay so and every other output pixel is unchanged.
C7_Idempotent ==
    img_pc = "done" =>
        /\ RemoveBackground(saved) = saved
        /\ \A i \in 1..Len(saved) :
              RemoveBackground(<<saved[i]>>) = <<saved[i]>>

C7_Witness ==
    /\ img_pc = "done"
    /\ \E i, j \in 1..Len(saved) :
          /\ saved[i] = <<255, 255, 255, 0>>
          /\ saved[j] = <<10, 231, 231, 128>>

====
